---- MODULE Spec2Model ----
(***************************************************************************)
(* A model of fetch_scryfall_to_ndjson.py: get_bulk_meta (the metadata     *)
(* resolver), stream_bulk_json_array_to_ndjson (the streaming transcoder)  *)
(* and main, which composes them.  The environment (the two HTTP           *)
(* endpoints, the filesystem, the incremental JSON parser) is              *)
(* nondeterministic: every request, open, parse, write and close may       *)
(* raise.                                                                  *)
(***************************************************************************)
EXTENDS Integers, Sequences, FiniteSets, TLC

VARIABLES
    mode,          \* which function was called: "main", "resolve", "transcode"
    pc,            \* position in the code
    dataset_type,  \* get_bulk_meta's dataset_type argument
    payload,       \* r.json() of the index response: <<>> or <<value>>
    meta,          \* entry returned by get_bulk_meta: <<>> or <<entry>>
    err,           \* exception that left the called function ("" = none)
    pending,       \* exception in flight while the finally block runs
    indexReqs,     \* GET requests sent to BULK_INDEX_URL
    downloadReqs,  \* GET requests sent to download_uri
    args,          \* main's parsed arguments
    download_uri,  \* stream_bulk_json_array_to_ndjson's download_uri
    out_paths,     \* its out_paths
    limit,         \* its limit: <<>> is None, <<n>> an integer
    resp,          \* outcome of the download request ("" = not sent)
    body,          \* the JSON array of the download response
    pulled,        \* array elements the ijson generator has yielded
    line,          \* the serialized line of the current element
    writers,       \* the file objects opened so far: [path, gz, closed]
    wi,            \* index of the writer loops (open, write, close)
    count,         \* lines written (the count local)
    result,        \* value returned by stream_bulk_json_array_to_ndjson
    fs,            \* the filesystem: path -> [exists, gz, lines]
    exitCode       \* main's outcome: -1 running, 0 returned 0, 1 unhandled error

vars == <<mode, pc, dataset_type, payload, meta, err, pending, indexReqs,
          downloadReqs, args, download_uri, out_paths, limit, resp, body,
          pulled, line, writers, wi, count, result, fs, exitCode>>

-----------------------------------------------------------------------------
(* Bounds of the model *)

\* longest data sequence of an index payload
MaxData == 2
\* longest downloaded array
MaxLen == 3
\* most sinks passed to a direct call of the transcoder
MaxSinks == 2
\* largest integer limit
MaxLimit == 2

-----------------------------------------------------------------------------
(* Values *)

Missing == "<missing>"
NoError == ""

SeqsUpTo(S, n) == UNION {[1..k -> S] : k \in 0..n}

IsInjective(s) == \A i, j \in DOMAIN s : s[i] = s[j] => i = j

DatasetTypes == {"oracle_cards", "default_cards"}
Uris == {"http://x/d.json", "http://y/o.json"}

\* An element of payload["data"]: a dict with optional "type" and
\* "download_uri" keys, or a value that is not a dict.
Entries ==
    [isDict : {TRUE}, type : DatasetTypes, uri : Uris \cup {"", Missing}]
    \cup {[isDict |-> FALSE, type |-> Missing, uri |-> Missing]}

\* The parsed index body.  kind is the JSON type of the top-level value;
\* object is the value of its "object" key; dataKind says whether the "data"
\* key is absent, null or an array.
ObjectPayloads ==
    [kind : {"object"}, object : {"list", "other", Missing},
     dataKind : {"missing", "null", "array"}, data : SeqsUpTo(Entries, MaxData)]

NonObjectPayloads ==
    [kind : {"array", "string", "number", "null"}, object : {Missing},
     dataKind : {"missing"}, data : {<<>>}]

Payloads ==
    {p \in ObjectPayloads : p.dataKind # "array" => p.data = <<>>}
    \cup NonObjectPayloads

\* Card records as ijson yields them: integers stay int, other numbers are
\* Decimal (units * 10^-scale).
Objects ==
    { [key |-> "id", t |-> "int", units |-> 1, scale |-> 0],
      [key |-> "id", t |-> "int", units |-> 2, scale |-> 0],
      [key |-> "price", t |-> "Decimal", units |-> 1250, scale |-> 2] }

Bodies == SeqsUpTo(Objects, MaxLen)

\* Output paths, split at the last dot.
Paths ==
    { [stem |-> "cards.ndjson", ext |-> ".gz"],
      [stem |-> "cards", ext |-> ".ndjson"],
      [stem |-> "OUT.NDJSON", ext |-> ".GZ"] }

Limits == {<<>>} \cup {<<n>> : n \in 0..MaxLimit}

NoArgs == [output |-> <<>>, also_plain |-> <<>>, limit |-> <<>>]

\* argparse results: --output is a path, --also-plain a path or None,
\* --limit an int or None.
MainArgs ==
    {a \in [output : {<<p>> : p \in Paths},
            also_plain : {<<>>} \cup {<<p>> : p \in Paths},
            limit : Limits] :
        a.also_plain # a.output}

-----------------------------------------------------------------------------
(* get_bulk_meta *)

\* line 26: payload.get("object") != "list" or "data" not in payload
\* (dict.get gives None for an absent key; Missing stands for it)
ShapeRejected(p) == p.object # "list" \/ p.dataKind = "missing"

\* line 29: isinstance(entry, dict) and entry.get("type") == dataset_type
Matches(entry, t) == entry.isDict /\ entry.type = t

\* line 30: not entry.get("download_uri")
LacksUri(entry) == entry.uri = Missing \/ entry.uri = ""

RECURSIVE ScanLast(_, _, _)
ScanLast(data, t, i) ==
    IF i < 1 THEN [entry |-> <<>>, err |-> "NotFoundError"]
    ELSE IF Matches(data[i], t)
         THEN IF LacksUri(data[i])
              THEN [entry |-> <<>>, err |-> "ShapeError"]
              ELSE [entry |-> <<data[i]>>, err |-> NoError]
         ELSE ScanLast(data, t, i - 1)

RECURSIVE ScanFrom(_, _, _)
ScanFrom(data, t, i) ==
    IF i > Len(data) THEN [entry |-> <<>>, err |-> "NotFoundError"]
    ELSE IF Matches(data[i], t)
         THEN IF LacksUri(data[i])
              THEN [entry |-> <<>>, err |-> "ShapeError"]
              ELSE [entry |-> <<data[i]>>, err |-> NoError]
         ELSE ScanFrom(data, t, i + 1)

ScanBackwards(data, t) == ScanLast(data, t, Len(data))

ScanNoMatchIsShapeError(data, t) ==
    IF ScanFrom(data, t, 1).err = "NotFoundError"
    THEN [entry |-> <<>>, err |-> "ShapeError"]
    ELSE ScanFrom(data, t, 1)

\* lines 28-33: the for loop over payload["data"] and the raise after it
Scan(data, t) == ScanFrom(data, t, 1)

-----------------------------------------------------------------------------
(* stream_bulk_json_array_to_ndjson *)

OutPathsNeverEmpty(paths) == FALSE

\* line 59: not out_paths
OutPathsEmpty(paths) == Len(paths) = 0

Lower(ext) == IF ext = ".GZ" THEN ".gz" ELSE ext

\* line 43: path.lower().endswith(".gz")
IsGzPath(path) == Lower(path.ext) = ".gz"

\* float(o) of a Decimal, as repr prints it: trailing zeros of the fraction
\* are dropped, one fractional digit is always kept.
RECURSIVE FloatOf(_, _)
FloatOf(units, scale) ==
    IF scale > 1 /\ units % 10 = 0 THEN FloatOf(units \div 10, scale - 1)
    ELSE IF scale = 0 THEN [units |-> units * 10, scale |-> 1]
    ELSE [units |-> units, scale |-> scale]

\* lines 36-39: the default hook of json.dumps
json_default(o) ==
    [key |-> o.key, t |-> "float",
     units |-> FloatOf(o.units, o.scale).units,
     scale |-> FloatOf(o.units, o.scale).scale]

\* line 75: json.dumps(obj, ensure_ascii=False, default=_json_default) + "\n"
Dumps(obj) ==
    IF obj.t = "Decimal"
    THEN [json |-> json_default(obj), newline |-> TRUE]
    ELSE [json |-> obj, newline |-> TRUE]

PrependLine(lines, l) == <<l>> \o lines

\* line 77: w.write(line)
WriteTo(lines, l) == Append(lines, l)

SkipWriter(j) == j + 2

\* line 76: the next writer of "for w in writers"
NextWriter(j) == j + 1

\* line 79: limit and count >= limit
LimitReached(lim, c) == lim # <<>> /\ lim[1] # 0 /\ c >= lim[1]

\* what a file at the sink path holds
SinkLines(path) == fs[path].lines

StaleLine == Dumps([key |-> "id", t |-> "int", units |-> 2, scale |-> 0])

\* the files present before the program runs
InitialFs ==
    [p \in Paths |->
        IF p.ext = ".gz" THEN [exists |-> TRUE, gz |-> TRUE, lines |-> <<StaleLine>>]
        ELSE IF p.ext = ".ndjson" THEN [exists |-> FALSE, gz |-> FALSE, lines |-> <<>>]
        ELSE [exists |-> TRUE, gz |-> FALSE, lines |-> <<>>]]

Outcomes == {"ok", "fails"}

HttpOutcomes == {"ok", "bad_status", "no_response"}

-----------------------------------------------------------------------------
(* Exceptions *)

\* an exception leaves the called function; under main it is unhandled and
\* the process ends with a non-zero status (line 118)
Raise(e) ==
    /\ pc' = "raised"
    /\ err' = e
    /\ exitCode' = IF mode = "main" THEN 1 ELSE exitCode

NoRaise == UNCHANGED <<err, exitCode>>

-----------------------------------------------------------------------------
(* Initial states: one call of main (arguments already parsed, lines 88-93), *)
(* of get_bulk_meta or of stream_bulk_json_array_to_ndjson                   *)

Init ==
    /\ mode \in {"main", "resolve", "transcode"}
    /\ payload = <<>> /\ meta = <<>> /\ err = NoError /\ pending = NoError
    /\ indexReqs = 0 /\ downloadReqs = 0 /\ resp = ""
    /\ body = <<>> /\ pulled = 0 /\ line = <<>> /\ writers = <<>> /\ wi = 1
    /\ count = 0 /\ result = <<>> /\ fs = InitialFs /\ exitCode = -1
    /\ \/ /\ mode = "main"
          /\ pc = "gbm_request"
          /\ dataset_type = "oracle_cards"
          /\ args \in MainArgs
          /\ download_uri = "" /\ out_paths = <<>> /\ limit = <<>>
       \/ /\ mode = "resolve"
          /\ pc = "gbm_request"
          /\ dataset_type \in DatasetTypes
          /\ args = NoArgs
          /\ download_uri = "" /\ out_paths = <<>> /\ limit = <<>>
       \/ /\ mode = "transcode"
          /\ pc = "sb_check"
          /\ dataset_type = ""
          /\ args = NoArgs
          /\ download_uri \in Uris
          /\ out_paths \in {s \in SeqsUpTo(Paths, MaxSinks) : IsInjective(s)}
          /\ limit \in Limits

-----------------------------------------------------------------------------
(* get_bulk_meta, lines 18-33 *)

\* lines 23-24: requests.get(BULK_INDEX_URL, ...) and r.raise_for_status()
GbmRequest ==
    /\ pc = "gbm_request"
    /\ indexReqs' = indexReqs + 1
    /\ \E o \in HttpOutcomes :
          IF o = "ok" THEN pc' = "gbm_json" /\ NoRaise
          ELSE IF o = "bad_status" THEN Raise("HttpError")
          ELSE Raise("ConnectionError")
    /\ UNCHANGED <<resp, mode, dataset_type, payload, meta, pending, downloadReqs,
                   args, download_uri, out_paths, limit, body, pulled, line,
                   writers, wi, count, result, fs>>

\* line 25: payload = r.json()
GbmJson ==
    /\ pc = "gbm_json"
    /\ \/ \E p \in Payloads : payload' = <<p>> /\ pc' = "gbm_shape" /\ NoRaise
       \/ payload' = payload /\ Raise("JSONDecodeError")
    /\ UNCHANGED <<resp, mode, dataset_type, meta, pending, indexReqs, downloadReqs,
                   args, download_uri, out_paths, limit, body, pulled, line,
                   writers, wi, count, result, fs>>

\* lines 26-27: payload.get exists on a dict only
GbmShape ==
    /\ pc = "gbm_shape"
    /\ IF payload[1].kind # "object" THEN Raise("AttributeError")
       ELSE IF ShapeRejected(payload[1]) THEN Raise("ShapeError")
       ELSE pc' = "gbm_scan" /\ NoRaise
    /\ UNCHANGED <<resp, mode, dataset_type, payload, meta, pending, indexReqs,
                   downloadReqs, args, download_uri, out_paths, limit, body,
                   pulled, line, writers, wi, count, result, fs>>

\* lines 28-33: iterating None raises TypeError
GbmScan ==
    /\ pc = "gbm_scan"
    /\ IF payload[1].dataKind = "null"
       THEN meta' = meta /\ Raise("TypeError")
       ELSE LET r == Scan(payload[1].data, dataset_type) IN
            IF r.err # NoError THEN meta' = meta /\ Raise(r.err)
            ELSE meta' = r.entry /\ pc' = "gbm_return" /\ NoRaise
    /\ UNCHANGED <<resp, mode, dataset_type, payload, pending, indexReqs,
                   downloadReqs, args, download_uri, out_paths, limit, body,
                   pulled, line, writers, wi, count, result, fs>>

-----------------------------------------------------------------------------
(* main, lines 87-114 *)

ProceedsAfterRaise(at) == at \in {"gbm_return", "raised"}

\* line 96: main goes on only when get_bulk_meta returned; an exception
\* leaves main
MainProceeds(at) == at = "gbm_return"

\* lines 97-112: the prints, out_paths and the call of the transcoder
MainCallTranscoder ==
    /\ mode = "main"
    /\ MainProceeds(pc)
    /\ download_uri' = IF meta = <<>> THEN "" ELSE meta[1].uri
    /\ out_paths' = args.output \o args.also_plain
    /\ limit' = args.limit
    /\ payload' = <<>>
    /\ pc' = "sb_check"
    /\ UNCHANGED <<resp, mode, dataset_type, meta, err, pending, indexReqs,
                   downloadReqs, args, body, pulled, line, writers, wi, count,
                   result, fs, exitCode>>

\* lines 113-114: print and return 0
MainReturn ==
    /\ mode = "main"
    /\ pc = "sb_return"
    /\ pc' = "exit"
    /\ exitCode' = 0
    /\ UNCHANGED <<resp, mode, dataset_type, payload, meta, err, pending, indexReqs,
                   downloadReqs, args, download_uri, out_paths, limit, body,
                   pulled, line, writers, wi, count, result, fs>>

-----------------------------------------------------------------------------
(* stream_bulk_json_array_to_ndjson, lines 48-84 *)

\* lines 59-60
SbCheck ==
    /\ pc = "sb_check"
    /\ IF OutPathsEmpty(out_paths) THEN Raise("ConfigError")
       ELSE pc' = "sb_request" /\ NoRaise
    /\ UNCHANGED <<resp, mode, dataset_type, payload, meta, pending, indexReqs,
                   downloadReqs, args, download_uri, out_paths, limit, body,
                   pulled, line, writers, wi, count, result, fs>>

OpensRegardless(o) == "sb_open"

\* lines 62-69: where control goes after requests.get and raise_for_status
AfterDownload(o) == IF o = "ok" THEN "sb_open" ELSE "raised"

\* lines 62-69: the streaming GET; the body is what the server will send
SbRequest ==
    /\ pc = "sb_request"
    /\ downloadReqs' = downloadReqs + 1
    /\ \E o \in HttpOutcomes :
       /\ resp' = o
       /\ IF AfterDownload(o) = "sb_open"
          THEN /\ pc' = "sb_open" /\ NoRaise
               /\ body' \in Bodies
          ELSE /\ Raise(IF o = "bad_status" THEN "HttpError" ELSE "ConnectionError")
               /\ body' = body
    /\ wi' = 1
    /\ UNCHANGED <<mode, dataset_type, payload, meta, pending, indexReqs,
                   args, download_uri, out_paths, limit, pulled, line,
                   writers, count, result, fs>>

\* lines 42-45 and 71: one _open_writer call of the list comprehension.
\* Mode "w"/"wt" creates or truncates the file.  The comprehension is outside
\* the try: an open that raises leaves the function at once.
SbOpen ==
    /\ pc = "sb_open"
    /\ LET path == out_paths[wi] IN
       \E o \in Outcomes :
          IF o = "ok"
          THEN /\ writers' = Append(writers,
                        [path |-> path, gz |-> IsGzPath(path), closed |-> FALSE])
               /\ fs' = [fs EXCEPT ![path] =
                        [exists |-> TRUE, gz |-> IsGzPath(path), lines |-> <<>>]]
               /\ IF wi = Len(out_paths)
                  THEN pc' = "sb_next" /\ wi' = 1
                  ELSE pc' = pc /\ wi' = wi + 1
               /\ NoRaise
          ELSE /\ Raise("OSError")
               /\ UNCHANGED <<writers, fs, wi>>
    /\ UNCHANGED <<resp, mode, dataset_type, payload, meta, pending, indexReqs,
                   downloadReqs, args, download_uri, out_paths, limit, body,
                   pulled, line, count, result>>

\* lines 74-75: the generator yields the next element, which is serialized;
\* or the array ends; or reading or parsing the stream raises
SbNext ==
    /\ pc = "sb_next"
    /\ \/ /\ pulled < Len(body)
          /\ pulled' = pulled + 1
          /\ line' = <<Dumps(body[pulled + 1])>>
          /\ pc' = "sb_write"
          /\ pending' = pending
       \/ /\ pulled = Len(body)
          /\ pc' = "sb_close"
          /\ UNCHANGED <<pulled, line, pending>>
       \/ /\ pending' = "IncompleteJSONError"
          /\ pc' = "sb_close"
          /\ UNCHANGED <<pulled, line>>
    /\ wi' = 1
    /\ UNCHANGED <<resp, mode, dataset_type, payload, meta, err, indexReqs,
                   downloadReqs, args, download_uri, out_paths, limit, body,
                   writers, count, result, fs, exitCode>>

\* lines 76-77: one w.write(line)
SbWrite ==
    /\ pc = "sb_write"
    /\ LET path == writers[wi].path IN
       \E o \in Outcomes :
          IF o = "ok"
          THEN /\ fs' = [fs EXCEPT ![path].lines = WriteTo(@, line[1])]
               /\ IF NextWriter(wi) > Len(writers)
                  THEN pc' = "sb_count" /\ wi' = 1
                  ELSE pc' = pc /\ wi' = NextWriter(wi)
               /\ pending' = pending
          ELSE /\ pending' = "OSError"
               /\ pc' = "sb_close"
               /\ wi' = 1
               /\ fs' = fs
    /\ UNCHANGED <<resp, mode, dataset_type, payload, meta, err, indexReqs,
                   downloadReqs, args, download_uri, out_paths, limit, body,
                   pulled, line, writers, count, result, exitCode>>

\* lines 78-80
SbCount ==
    /\ pc = "sb_count"
    /\ count' = count + 1
    /\ pc' = IF LimitReached(limit, count + 1) THEN "sb_close" ELSE "sb_next"
    /\ UNCHANGED <<resp, mode, dataset_type, payload, meta, err, pending, indexReqs,
                   downloadReqs, args, download_uri, out_paths, limit, body,
                   pulled, line, writers, wi, result, fs, exitCode>>

\* lines 81-83: one w.close() of the finally block.  A close that raises
\* leaves the loop and the function; the file object itself ends up closed.
\* After the last close the exception in flight, if any, is raised again.
SbClose ==
    /\ pc = "sb_close"
    /\ writers' = [writers EXCEPT ![wi].closed = TRUE]
    /\ \E o \in Outcomes :
          IF o = "ok"
          THEN IF wi < Len(writers)
               THEN pc' = pc /\ wi' = wi + 1 /\ NoRaise
               ELSE /\ wi' = wi
                    /\ IF pending # NoError THEN Raise(pending)
                       ELSE pc' = "sb_finally_done" /\ NoRaise
          ELSE wi' = wi /\ Raise("OSError")
    /\ UNCHANGED <<resp, mode, dataset_type, payload, meta, pending, indexReqs,
                   downloadReqs, args, download_uri, out_paths, limit, body,
                   pulled, line, count, result, fs>>

\* line 84: return count
SbReturn ==
    /\ pc = "sb_finally_done"
    /\ result' = <<count>>
    /\ pc' = "sb_return"
    /\ UNCHANGED <<resp, mode, dataset_type, payload, meta, err, pending, indexReqs,
                   downloadReqs, args, download_uri, out_paths, limit, body,
                   pulled, line, writers, wi, count, fs, exitCode>>

-----------------------------------------------------------------------------

Next ==
    \/ GbmRequest \/ GbmJson \/ GbmShape \/ GbmScan
    \/ MainCallTranscoder \/ MainReturn
    \/ SbCheck \/ SbRequest \/ SbOpen \/ SbNext \/ SbWrite \/ SbCount
    \/ SbClose \/ SbReturn

Spec == Init /\ [][Next]_vars

-----------------------------------------------------------------------------
(* Properties *)

\* the called function, or main, has ended
Terminal == pc \in {"raised", "gbm_return", "sb_return", "exit"}

\* get_bulk_meta has ended and its payload local is still in view
ResolveEnded == payload # <<>> /\ pc \in {"gbm_return", "raised"}

\* get_bulk_meta ended by raising
ResolveFailed == mode \in {"main", "resolve"} /\ pc = "raised" /\ meta = <<>>

HasMatch(p, t) == \E i \in DOMAIN p.data : Matches(p.data[i], t)

FirstMatch(p, t) ==
    CHOOSE i \in DOMAIN p.data :
        /\ Matches(p.data[i], t)
        /\ \A j \in 1..(i - 1) : ~Matches(p.data[j], t)

\* the shape section 6 of the specification expects of the index body
IsListObject(p) == p.kind = "object" /\ p.object = "list" /\ p.dataKind # "missing"

\* the lines the sinks are to receive: the serialization of each element
ExpectedLines(n) == [k \in 1..n |-> Dumps(body[k])]

LinesOf(i) == SinkLines(writers[i].path)

\* C1: in every terminal state of the transcoder every opened sink is closed.
C1_AllSinksClosed ==
    Terminal => \A i \in DOMAIN writers : writers[i].closed

\* C2: with an integer limit k, 0 <= k < len(array), a returning transcoder
\* has written exactly k lines to each sink, returns k and has pulled no
\* element beyond the k-th.
C2_LimitStopsAtK ==
    (pc = "sb_return" /\ limit # <<>> /\ limit[1] < Len(body)) =>
        /\ result = <<limit[1]>>
        /\ pulled = limit[1]
        /\ \A i \in DOMAIN writers : Len(LinesOf(i)) = limit[1]

\* C3: with no limit and a non-empty array, a returning transcoder has
\* written to each sink the serialization of every element, in array order,
\* and returns len(array), the number of lines of every sink.
C3_AllRecordsInOrder ==
    (pc \in {"sb_return", "exit"} /\ limit = <<>> /\ Len(body) > 0) =>
        /\ result = <<Len(body)>>
        /\ Len(writers) = Len(out_paths)
        /\ \A i \in DOMAIN writers :
              /\ writers[i].path = out_paths[i]
              /\ LinesOf(i) = ExpectedLines(Len(body))
              /\ Len(LinesOf(i)) = result[1]

C3_Witness ==
    /\ pc = "sb_return" /\ limit = <<>>
    /\ Len(body) = 2 /\ body[1].t = "Decimal" /\ body[2].t = "int"
    /\ Len(writers) = 2
    /\ LinesOf(2)[1].json = [key |-> "price", t |-> "float", units |-> 125, scale |-> 1]
    /\ LinesOf(2)[2].json = body[2]

\* C4: the transcoder called with an empty sink list raises ConfigError
\* having sent no request and opened no file.
C4_EmptySinksRejectedFirst ==
    (mode = "transcode" /\ out_paths = <<>>) =>
        /\ indexReqs = 0 /\ downloadReqs = 0
        /\ writers = <<>> /\ fs = InitialFs
        /\ pc # "sb_check" => (pc = "raised" /\ err = "ConfigError")

C4_Witness ==
    mode = "transcode" /\ out_paths = <<>> /\ pc = "raised" /\ err = "ConfigError"

\* C5: for a list payload whose data holds an entry of the requested type
\* (the first of them carrying a download_uri), get_bulk_meta returns the
\* first such entry in data order, with that entry's download_uri.
C5_ReturnsFirstMatch ==
    (/\ ResolveEnded
     /\ IsListObject(payload[1]) /\ payload[1].dataKind = "array"
     /\ HasMatch(payload[1], dataset_type)
     /\ ~LacksUri(payload[1].data[FirstMatch(payload[1], dataset_type)])) =>
        /\ pc = "gbm_return" /\ err = NoError
        /\ meta = <<payload[1].data[FirstMatch(payload[1], dataset_type)]>>
        /\ meta[1].uri = payload[1].data[FirstMatch(payload[1], dataset_type)].uri

C5_Witness ==
    /\ pc = "gbm_return" /\ payload # <<>>
    /\ Len(payload[1].data) = 2
    /\ Matches(payload[1].data[1], dataset_type)
    /\ Matches(payload[1].data[2], dataset_type)
    /\ payload[1].data[2].uri \in Uris
    /\ payload[1].data[1].uri # payload[1].data[2].uri
    /\ meta = <<payload[1].data[1]>>

\* C6 as stated, on payloads that are JSON objects whose data is not null:
\* a payload without an entry of the requested type makes get_bulk_meta
\* raise NotFoundError.
C6_Original ==
    (/\ ResolveEnded
     /\ payload[1].kind = "object" /\ payload[1].dataKind # "null"
     /\ ~HasMatch(payload[1], dataset_type)) =>
        pc = "raised" /\ err = "NotFoundError"

\* C6 amended: a payload that is an object with object == "list" and a data
\* array holding no entry of the requested type makes get_bulk_meta raise
\* NotFoundError; it returns no entry.
C6_NotFoundOnListPayload ==
    (/\ ResolveEnded
     /\ IsListObject(payload[1]) /\ payload[1].dataKind = "array"
     /\ ~HasMatch(payload[1], dataset_type)) =>
        pc = "raised" /\ err = "NotFoundError" /\ meta = <<>>

C6_Witness ==
    /\ ResolveEnded /\ err = "NotFoundError"
    /\ IsListObject(payload[1]) /\ Len(payload[1].data) = 2
    /\ payload[1].data[1].isDict /\ ~payload[1].data[2].isDict
    /\ payload[1].data[1].uri \in Uris

\* C7: get_bulk_meta raises ShapeError whenever the parsed index body is not
\* an object with object == "list" and a data field, non-objects included.
C7_ShapeErrorOnBadShape ==
    (ResolveEnded /\ ~IsListObject(payload[1])) =>
        pc = "raised" /\ err = "ShapeError"

\* C8: every sink holds a prefix of the same line sequence; an earlier sink
\* is never behind a later one and never more than one line ahead; when the
\* transcoder returns all sinks hold the same lines.
C8_SinksInLockstep ==
    /\ \A i \in DOMAIN writers :
          /\ Len(LinesOf(i)) <= Len(body)
          /\ LinesOf(i) = ExpectedLines(Len(LinesOf(i)))
    /\ \A i, j \in DOMAIN writers :
          i < j => /\ Len(LinesOf(j)) <= Len(LinesOf(i))
                   /\ Len(LinesOf(i)) <= Len(LinesOf(j)) + 1
    /\ pc \in {"sb_return", "exit"} =>
          \A i, j \in DOMAIN writers : LinesOf(i) = LinesOf(j)

C8_Witness ==
    /\ pc = "sb_write" /\ wi = 2 /\ Len(writers) = 2
    /\ writers[1].gz /\ ~writers[2].gz
    /\ Len(LinesOf(1)) = 2 /\ Len(LinesOf(2)) = 1

\* C9: in a run of main the index request is sent exactly once, the download
\* request at most once and only after get_bulk_meta returned an entry; the
\* transcoder starts only then; when get_bulk_meta raises, no download
\* request is sent, no sink is opened and main does not return 0.
C9_ResolveBeforeTranscode ==
    mode = "main" =>
        /\ indexReqs = (IF pc = "gbm_request" THEN 0 ELSE 1)
        /\ downloadReqs <= 1
        /\ (downloadReqs = 1 \/ resp # "" \/ out_paths # <<>>) =>
              /\ meta # <<>>
              /\ download_uri = meta[1].uri
        /\ (writers # <<>> \/ fs # InitialFs) => downloadReqs = 1
        /\ exitCode = 0 => (meta # <<>> /\ pc = "exit")
        /\ ResolveFailed =>
              /\ downloadReqs = 0 /\ writers = <<>> /\ fs = InitialFs
              /\ exitCode = 1

C9_Witness ==
    mode = "main" /\ ResolveFailed /\ err = "NotFoundError" /\ indexReqs = 1

\* C10: a download request that fails or returns a non-success status makes
\* the transcoder raise with no sink opened and the files at the sink paths
\* as they were; sinks are opened only after the response passed its status
\* check.
C10_NoSinkBeforeStatusCheck ==
    /\ resp \in {"bad_status", "no_response"} =>
          /\ pc = "raised" /\ err \in {"HttpError", "ConnectionError"}
          /\ writers = <<>> /\ fs = InitialFs
    /\ (writers # <<>> \/ fs # InitialFs) => resp = "ok"

C10_Witness ==
    /\ resp = "bad_status" /\ pc = "raised" /\ err = "HttpError"
    /\ Len(out_paths) = 2
    /\ \E i \in DOMAIN out_paths :
          fs[out_paths[i]].exists /\ fs[out_paths[i]].lines = <<StaleLine>>

====
